---- MODULE Spec2Model ----
(***************************************************************************)
(* A model of the collaborative editor: the operation algebra of OTEngine, *)
(* the relay of server.js and the Editor client with its SocketManager.    *)
(*                                                                         *)
(* Texts are sequences of one-character strings, positions are gap         *)
(* positions (0 .. length) as in the JavaScript code, user ids are         *)
(* sequences of code units compared lexicographically as JavaScript        *)
(* compares strings.                                                       *)
(***************************************************************************)
EXTENDS Integers, Sequences, FiniteSets, TLC

(***************************************************************************)
(* Bounds of the model.                                                    *)
(***************************************************************************)
\* longest base text of the algebra specification
MaxLen == 6
\* longest text one insert carries in the algebra specification
MaxTextLen == 2
\* number of connections that get established (later ones stay pending)
MaxSockets == 4
\* longest text a local edit of a client produces
MaxContent == 2
\* number of local edits all clients make together
MaxEdits == 3
\* number of connections that are not Editors
MaxPeers == 2
\* number of messages those connections send together
MaxSends == 4
\* how far beyond the end of the text a position or a length handed to apply goes
MaxBeyond == 2
\* longest queue handed to transformAgainst, and longest base text of its operations
MaxQueue == 2
\* longest text handed to detectChange
MaxDetectLen == 2

(***************************************************************************)
(* Helpers: JavaScript primitives used by the code.                        *)
(***************************************************************************)
Min(x, y) == IF x <= y THEN x ELSE y

Max(x, y) == IF x >= y THEN x ELSE y

\* String.prototype.substring clamps each index into [0, length]
ClampIndex(text, i) == Max(0, Min(i, Len(text)))

\* text.substring(start, end): clamps both indices, swaps them when start > end
Substring(text, start, end) ==
    LET s == ClampIndex(text, start)
        e == ClampIndex(text, end)
    IN  SubSeq(text, Min(s, e) + 1, Max(s, e))

\* text.substring(start)
SubstringFrom(text, start) == Substring(text, start, Len(text))

\* u < v on JavaScript strings: lexicographic on code units, a proper prefix is smaller
RECURSIVE LexLess(_, _)
LexLess(u, v) ==
    IF v = <<>> THEN FALSE
    ELSE IF u = <<>> THEN TRUE
    ELSE IF Head(u) # Head(v) THEN Head(u) < Head(v)
    ELSE LexLess(Tail(u), Tail(v))

(***************************************************************************)
(* Operations (operations.ts): the two variants of Operation.              *)
(***************************************************************************)
InsertOperation(id, userId, position, text) ==
    [type |-> "insert", id |-> id, userId |-> userId, position |-> position, text |-> text]

DeleteOperation(id, userId, position, length) ==
    [type |-> "delete", id |-> id, userId |-> userId, position |-> position, length |-> length]

(***************************************************************************)
(* OTEngine                                                                *)
(***************************************************************************)
\* a variant that shifts on position only and has no tie-break on the user id
transformInsertInsert_NoTieBreak(op1, op2) ==
    IF op2.position < op1.position
    THEN [op1 EXCEPT !.position = op1.position + Len(op2.text)]
    ELSE op1

transformInsertInsert(op1, op2) ==
    IF op2.position < op1.position
    THEN [op1 EXCEPT !.position = op1.position + Len(op2.text)]
    ELSE IF op2.position = op1.position /\ LexLess(op2.userId, op1.userId)
    THEN [op1 EXCEPT !.position = op1.position + Len(op2.text)]
    ELSE op1

\* a variant that leaves an insert behind the deleted range where it is
transformInsertDelete_NoShift(op1, op2) ==
    IF op2.position + op2.length <= op1.position
    THEN op1
    ELSE IF op2.position < op1.position
    THEN [op1 EXCEPT !.position = op2.position]
    ELSE op1

transformInsertDelete(op1, op2) ==
    IF op2.position + op2.length <= op1.position
    THEN [op1 EXCEPT !.position = op1.position - op2.length]
    ELSE IF op2.position < op1.position
    THEN [op1 EXCEPT !.position = op2.position]
    ELSE op1

\* a variant that extends the delete for an insert at its start
transformDeleteInsert_StrictBefore(op1, op2) ==
    IF op2.position < op1.position
    THEN [op1 EXCEPT !.position = op1.position + Len(op2.text)]
    ELSE IF op2.position < op1.position + op1.length
    THEN [op1 EXCEPT !.length = op1.length + Len(op2.text)]
    ELSE op1

transformDeleteInsert(op1, op2) ==
    IF op2.position <= op1.position
    THEN [op1 EXCEPT !.position = op1.position + Len(op2.text)]
    ELSE IF op2.position < op1.position + op1.length
    THEN [op1 EXCEPT !.length = op1.length + Len(op2.text)]
    ELSE op1

\* a variant that keeps the position of op1 when op2 starts before it
transformDeleteDelete_KeepsPosition(op1, op2) ==
    IF op2.position + op2.length <= op1.position
    THEN [op1 EXCEPT !.position = op1.position - op2.length]
    ELSE IF op2.position >= op1.position + op1.length
    THEN op1
    ELSE IF op2.position <= op1.position
    THEN LET overlap == Min(op2.position + op2.length - op1.position, op1.length)
         IN  [op1 EXCEPT !.length = op1.length - overlap]
    ELSE LET overlap == Min(op1.position + op1.length - op2.position, op2.length)
         IN  [op1 EXCEPT !.length = op1.length - overlap]

\* a variant that takes the overlap of a contained range up to the end of op1
transformDeleteDelete_LongOverlap(op1, op2) ==
    IF op2.position + op2.length <= op1.position
    THEN [op1 EXCEPT !.position = op1.position - op2.length]
    ELSE IF op2.position >= op1.position + op1.length
    THEN op1
    ELSE IF op2.position <= op1.position
    THEN LET overlap == Min(op2.position + op2.length - op1.position, op1.length)
         IN  [op1 EXCEPT !.position = op2.position, !.length = op1.length - overlap]
    ELSE LET overlap == op1.position + op1.length - op2.position
         IN  [op1 EXCEPT !.length = op1.length - overlap]

transformDeleteDelete(op1, op2) ==
    IF op2.position + op2.length <= op1.position
    THEN [op1 EXCEPT !.position = op1.position - op2.length]
    ELSE IF op2.position >= op1.position + op1.length
    THEN op1
    ELSE IF op2.position <= op1.position
    THEN LET overlap == Min(op2.position + op2.length - op1.position, op1.length)
         IN  [op1 EXCEPT !.position = op2.position, !.length = op1.length - overlap]
    ELSE LET overlap == Min(op1.position + op1.length - op2.position, op2.length)
         IN  [op1 EXCEPT !.length = op1.length - overlap]

transform(op1, op2) ==
    IF op1.type = "insert" /\ op2.type = "insert" THEN transformInsertInsert(op1, op2)
    ELSE IF op1.type = "insert" /\ op2.type = "delete" THEN transformInsertDelete(op1, op2)
    ELSE IF op1.type = "delete" /\ op2.type = "insert" THEN transformDeleteInsert(op1, op2)
    ELSE IF op1.type = "delete" /\ op2.type = "delete" THEN transformDeleteDelete(op1, op2)
    ELSE op1

applyInsert(text, op) ==
    LET before == Substring(text, 0, op.position)
        after  == SubstringFrom(text, op.position)
    IN  before \o op.text \o after

\* a variant that also removes the unit before the deleted range
applyDelete_OneBefore(text, op) ==
    LET before == Substring(text, 0, op.position - 1)
        after  == SubstringFrom(text, op.position + op.length)
    IN  before \o after

applyDelete(text, op) ==
    LET before == Substring(text, 0, op.position)
        after  == SubstringFrom(text, op.position + op.length)
    IN  before \o after

apply(text, operation) ==
    IF operation.type = "insert" THEN applyInsert(text, operation)
    ELSE applyDelete(text, operation)

\* a variant that walks the queue from its last operation to its first
transformAgainst_Reversed(op, operations) ==
    LET n == Len(operations)
        transformed[i \in 0..n] ==
            IF i = 0 THEN op ELSE transform(transformed[i - 1], operations[n + 1 - i])
    IN  transformed[n]

\* transformAgainst: transformed is op at first and, after the i-th turn of
\* the loop, the transform of its previous value against operations[i]
transformAgainst(op, operations) ==
    LET n == Len(operations)
        transformed[i \in 0..n] ==
            IF i = 0 THEN op ELSE transform(transformed[i - 1], operations[i])
    IN  transformed[n]

\* the value compose returns when the two operations do not compose
Null == [type |-> "null"]

\* a variant that merges two inserts of one user wherever the second one is
compose_AnyPosition(op1, op2) ==
    IF /\ op1.type = "insert"
       /\ op2.type = "insert"
       /\ op1.userId = op2.userId
    THEN [op1 EXCEPT !.text = op1.text \o op2.text]
    ELSE IF /\ op1.type = "delete"
            /\ op2.type = "delete"
            /\ op1.position = op2.position
            /\ op1.userId = op2.userId
    THEN [op1 EXCEPT !.length = op1.length + op2.length]
    ELSE Null

compose(op1, op2) ==
    IF /\ op1.type = "insert"
       /\ op2.type = "insert"
       /\ op1.position + Len(op1.text) = op2.position
       /\ op1.userId = op2.userId
    THEN [op1 EXCEPT !.text = op1.text \o op2.text]
    ELSE IF /\ op1.type = "delete"
            /\ op2.type = "delete"
            /\ op1.position = op2.position
            /\ op1.userId = op2.userId
    THEN [op1 EXCEPT !.length = op1.length + op2.length]
    ELSE Null

(***************************************************************************)
(* The algebra exercised on bounded inputs: a base text, two operations    *)
(* and the results of the checks run on them; for the calls of single      *)
(* functions also a queue of operations, a new text and a caret.           *)
(***************************************************************************)
VARIABLES base, opA, opB, phase, out, queue, editedText, caretAt

algVars == <<base, opA, opB, phase, out, queue, editedText, caretAt>>

(***************************************************************************)
(* State of the relay (server.js), of the transport and of each client     *)
(* (Editor.tsx with its SocketManager).                                    *)
(***************************************************************************)
VARIABLES
    documents,       \* server: the documents map, documentId -> document
    colorIndex,      \* server: colorIndex
    srvDocumentId,   \* server, per connection: currentDocumentId
    srvUser,         \* server, per connection: currentUser
    disconnected,    \* server: connections whose disconnect event has fired
    c2s,             \* transport: per connection, messages client -> server
    s2c,             \* transport: per connection, messages server -> client
    received,        \* per connection: versions of the operation messages delivered
    nextSocket,      \* the id the next created socket gets
    nextOpId,        \* the next fresh operation id
    sent,            \* number of messages sent by connections that are not Editors
    socket,          \* SocketManager.socket (socket id) per client
    connected,       \* SocketManager.connected and socket.connected per client
    smDocumentId,    \* SocketManager.currentDocumentId per client
    documentId,      \* Editor prop documentId per client
    content,         \* Editor state content
    prevContent,     \* Editor state prevContent
    rendered,        \* content as of the last effect run, captured by the callbacks
    isConnected,     \* Editor state isConnected
    remoteUsers      \* Editor state remoteUsers

srvVars == <<documents, colorIndex, srvDocumentId, srvUser, disconnected>>

netVars == <<c2s, s2c, received, nextSocket, nextOpId, sent>>

cliVars == <<socket, connected, smDocumentId, documentId, content, prevContent,
             rendered, isConnected, remoteUsers>>

sysVars == <<srvVars, netVars, cliVars>>

vars == <<algVars, sysVars>>

Clients == {"c1", "c2"}

Docs == {"d1", "d2"}

Sockets == 1..MaxSockets

\* null for a socket, a document id and a user
NoSocket == 0

NoDoc == "none"

NoUser == [id |-> 0]

\* the system before anything is mounted: the state the algebra specification keeps
SysIdle ==
    /\ documents = <<>>
    /\ colorIndex = 0
    /\ srvDocumentId = [s \in Sockets |-> NoDoc]
    /\ srvUser = [s \in Sockets |-> NoUser]
    /\ disconnected = {}
    /\ c2s = [s \in Sockets |-> <<>>]
    /\ s2c = [s \in Sockets |-> <<>>]
    /\ received = [s \in Sockets |-> <<>>]
    /\ nextSocket = 1
    /\ nextOpId = 1
    /\ sent = 0
    /\ socket = [c \in Clients |-> NoSocket]
    /\ connected = [c \in Clients |-> FALSE]
    /\ smDocumentId = [c \in Clients |-> NoDoc]
    /\ documentId = [c \in Clients |-> "d1"]
    /\ content = [c \in Clients |-> <<>>]
    /\ prevContent = [c \in Clients |-> <<>>]
    /\ rendered = [c \in Clients |-> <<>>]
    /\ isConnected = [c \in Clients |-> FALSE]
    /\ remoteUsers = [c \in Clients |-> <<>>]

\* ten distinct code units: a base text is a prefix of it
Alphabet == <<"a", "b", "c", "d", "e", "f", "g", "h", "i", "j">>

BaseTexts == {SubSeq(Alphabet, 1, n) : n \in 0..MaxLen}

\* user ids "A", "AA", "B" as code units
UserIds == {<<1>>, <<1, 1>>, <<2>>}

Repeat(ch, k) == [i \in 1..k |-> ch]

\* the operations the data model allows on a text: position within the
\* text, inserted text non-empty, deleted range non-empty and inside the text
InRange(text, op) ==
    IF op.type = "insert"
    THEN 0 <= op.position /\ op.position <= Len(text)
    ELSE 0 <= op.position /\ op.length > 0 /\ op.position + op.length <= Len(text)

InsertsOn(text, id, ch) ==
    {InsertOperation(id, u, p, Repeat(ch, k)) :
        u \in UserIds, p \in 0..Len(text), k \in 1..MaxTextLen}

DeletesOn(text, id) ==
    UNION {{DeleteOperation(id, u, p, k) : u \in UserIds, k \in 1..(Len(text) - p)} :
        p \in 0..Len(text)}

OpsOn(text, id, ch) == InsertsOn(text, id, ch) \cup DeletesOn(text, id)

NoResult == [kind |-> "none"]

InitAlg ==
    /\ base \in BaseTexts
    /\ opA \in OpsOn(base, 1, "X")
    /\ opB \in OpsOn(base, 2, "Y") \cup OpsOn(apply(base, opA), 2, "Y")
    /\ phase = "input"
    /\ out = NoResult
    /\ queue = <<>>
    /\ editedText = <<>>
    /\ caretAt = 0
    /\ SysIdle

\* two concurrent operations on the same base: transform each against the
\* other and apply both orders
TransformPair ==
    /\ phase = "input"
    /\ InRange(base, opB)
    /\ phase' = "transformed"
    /\ out' = [kind  |-> "transform",
               ab    |-> transform(opA, opB),
               ba    |-> transform(opB, opA),
               left  |-> apply(apply(base, opA), transform(opB, opA)),
               right |-> apply(apply(base, opB), transform(opA, opB))]
    /\ UNCHANGED <<base, opA, opB, queue, editedText, caretAt>>
    /\ UNCHANGED sysVars

\* two consecutive operations: opB is issued on the text opA produced
ComposePair ==
    /\ phase = "input"
    /\ InRange(apply(base, opA), opB)
    /\ phase' = "composed"
    /\ out' = [kind |-> "compose",
               c    |-> compose(opA, opB),
               seq  |-> apply(apply(base, opA), opB),
               one  |-> IF compose(opA, opB) = Null THEN <<>>
                        ELSE apply(base, compose(opA, opB))]
    /\ UNCHANGED <<base, opA, opB, queue, editedText, caretAt>>
    /\ UNCHANGED sysVars

NextAlg == TransformPair \/ ComposePair

SpecAlg == InitAlg /\ [][NextAlg]_vars

(***************************************************************************)
(* The relay: server.js                                                    *)
(***************************************************************************)
COLORS == <<"#FF6B6B", "#4ECDC4", "#45B7D1", "#FFA07A",
            "#98D8C8", "#F7DC6F", "#BB8FCE", "#85C1E2">>

\* the document getDocument creates
NewDocument(id) ==
    [id |-> id, content |-> <<>>, version |-> 0, operations |-> <<>>, users |-> <<>>]

\* the documents map after getDocument(id): get or create
getDocument(docs, id) ==
    IF id \in DOMAIN docs THEN docs ELSE docs @@ (id :> NewDocument(id))

\* the keys of doc.users; the Map is kept as the sequence of its values in insertion order
RosterIds(doc) == {doc.users[i].id : i \in DOMAIN doc.users}

\* a variant that leaves the roster as it is
UsersSet_Skip(users, user) == users

\* doc.users.set(user.id, user)
UsersSet(users, user) ==
    IF \E i \in DOMAIN users : users[i].id = user.id
    THEN [i \in DOMAIN users |-> IF users[i].id = user.id THEN user ELSE users[i]]
    ELSE Append(users, user)

\* doc.users.delete(socketId)
UsersDelete(users, socketId) == SelectSeq(users, LAMBDA u : u.id # socketId)

\* the user record addUser builds; the name is "User N" with N = doc.users.size + 1
NewUser(doc, socketId, colorIdx) ==
    [id |-> socketId, name |-> Len(doc.users) + 1,
     color |-> COLORS[(colorIdx % Len(COLORS)) + 1], cursor |-> 0]

removeUser(docs, id, socketId) ==
    IF id \in DOMAIN docs
    THEN [docs EXCEPT ![id].users = UsersDelete(@, socketId)]
    ELSE docs

\* a variant that sends to the users of every document
broadcastToDocument_AnyDocument(ch, docs, id, msg, excludeSocketId) ==
    [s \in Sockets |->
        IF (\E d \in DOMAIN docs : s \in RosterIds(docs[d])) /\ s # excludeSocketId
        THEN Append(ch[s], msg)
        ELSE ch[s]]

\* a variant that sends to every user of the document, the sender included
broadcastToDocument_ToAll(ch, docs, id, msg, excludeSocketId) ==
    IF id \notin DOMAIN docs THEN ch
    ELSE [s \in Sockets |->
            IF s \in RosterIds(docs[id]) THEN Append(ch[s], msg) ELSE ch[s]]

\* the server -> client channels after broadcastToDocument
broadcastToDocument(ch, docs, id, msg, excludeSocketId) ==
    IF id \notin DOMAIN docs THEN ch
    ELSE [s \in Sockets |->
            IF s \in RosterIds(docs[id]) /\ s # excludeSocketId
            THEN Append(ch[s], msg)
            ELSE ch[s]]

\* a variant that removes one unit less than the delete asks for
ServerApply_ShortDelete(text, operation) ==
    IF operation.type = "insert"
    THEN Substring(text, 0, operation.position) \o operation.text
            \o SubstringFrom(text, operation.position)
    ELSE IF operation.type = "delete"
    THEN Substring(text, 0, operation.position)
            \o SubstringFrom(text, operation.position + operation.length - 1)
    ELSE text

\* the content after the operation handler applied the operation
ServerApply(text, operation) ==
    IF operation.type = "insert"
    THEN Substring(text, 0, operation.position) \o operation.text
            \o SubstringFrom(text, operation.position)
    ELSE IF operation.type = "delete"
    THEN Substring(text, 0, operation.position)
            \o SubstringFrom(text, operation.position + operation.length)
    ELSE text

\* a variant that leaves the version as it is
IncrementVersion_Stuck(version) == version

\* doc.version++
IncrementVersion(version) == version + 1

\* the entry the operation handler pushes to doc.operations
LogEntry(operation, version) == operation @@ [serverVersion |-> version]

HeadIs(ch, s, type) == ch[s] # <<>> /\ Head(ch[s]).type = type

\* a variant that sends an empty content
DocumentState_Empty(doc) ==
    [type |-> "document-state", content |-> <<>>,
     version |-> doc.version, users |-> doc.users]

\* the document-state message the join handler emits
DocumentState(doc) ==
    [type |-> "document-state", content |-> doc.content,
     version |-> doc.version, users |-> doc.users]

\* a variant that takes every value of currentDocumentId for a document id
Falsy_Never(id) == FALSE

\* !currentDocumentId: null and the empty string are falsy
Falsy(id) == id = NoDoc \/ id = ""

\* socket.on('join-document')
ServerJoinDocument(s) ==
    /\ HeadIs(c2s, s, "join-document")
    /\ LET id    == Head(c2s[s]).documentId
           docs1 == IF ~Falsy(srvDocumentId[s])
                    THEN removeUser(documents, srvDocumentId[s], s)
                    ELSE documents
           docs2 == getDocument(docs1, id)
           user  == NewUser(docs2[id], s, colorIndex)
           docs3 == [docs2 EXCEPT ![id].users = UsersSet(@, user)]
           state == DocumentState(docs3[id])
           joined == [type |-> "user-joined", user |-> user, users |-> docs3[id].users]
           ch1   == [s2c EXCEPT ![s] = Append(@, state)]
       IN  /\ documents' = docs3
           /\ colorIndex' = colorIndex + 1
           /\ srvDocumentId' = [srvDocumentId EXCEPT ![s] = id]
           /\ srvUser' = [srvUser EXCEPT ![s] = user]
           /\ s2c' = broadcastToDocument(ch1, docs3, id, joined, s)
    /\ c2s' = [c2s EXCEPT ![s] = Tail(@)]
    /\ UNCHANGED <<disconnected, received, nextSocket, nextOpId, sent>>
    /\ UNCHANGED cliVars
    /\ UNCHANGED algVars

\* socket.on('operation')
ServerOperation(s) ==
    /\ HeadIs(c2s, s, "operation")
    /\ IF Falsy(srvDocumentId[s])
       THEN UNCHANGED <<documents, s2c>>
       ELSE LET id        == srvDocumentId[s]
                operation == Head(c2s[s]).operation
                docs1     == getDocument(documents, id)
                version   == IncrementVersion(docs1[id].version)
                docs2     == [docs1 EXCEPT
                                 ![id].content = ServerApply(@, operation),
                                 ![id].version = version,
                                 ![id].operations = Append(@, LogEntry(operation, version))]
                msg       == [type |-> "operation", operation |-> operation,
                              version |-> version]
            IN  /\ documents' = docs2
                /\ s2c' = broadcastToDocument(s2c, docs2, id, msg, s)
    /\ c2s' = [c2s EXCEPT ![s] = Tail(@)]
    /\ UNCHANGED <<colorIndex, srvDocumentId, srvUser, disconnected>>
    /\ UNCHANGED <<received, nextSocket, nextOpId, sent>>
    /\ UNCHANGED cliVars
    /\ UNCHANGED algVars

\* socket.on('cursor-position'); currentUser is the object the roster holds
ServerCursorPosition(s) ==
    /\ HeadIs(c2s, s, "cursor-position")
    /\ IF Falsy(srvDocumentId[s]) \/ srvUser[s] = NoUser
       THEN UNCHANGED <<documents, srvUser, s2c>>
       ELSE LET id       == srvDocumentId[s]
                position == Head(c2s[s]).position
                docs1    == getDocument(documents, id)
                docs2    == [docs1 EXCEPT ![id].users =
                                [i \in DOMAIN @ |->
                                    IF @[i].id = s THEN [@[i] EXCEPT !.cursor = position]
                                    ELSE @[i]]]
                update   == [type |-> "cursor-update", userId |-> s, position |-> position]
            IN  IF s \in RosterIds(docs1[id])
                THEN /\ documents' = docs2
                     /\ srvUser' = [srvUser EXCEPT ![s].cursor = position]
                     /\ s2c' = broadcastToDocument(s2c, docs2, id, update, s)
                ELSE /\ documents' = docs1
                     /\ UNCHANGED <<srvUser, s2c>>
    /\ c2s' = [c2s EXCEPT ![s] = Tail(@)]
    /\ UNCHANGED <<colorIndex, srvDocumentId, disconnected>>
    /\ UNCHANGED <<received, nextSocket, nextOpId, sent>>
    /\ UNCHANGED cliVars
    /\ UNCHANGED algVars

\* the channels once a connection is closed on both ends: what was sent to it is lost
ConnectionGone(ch, s) == [ch EXCEPT ![s] = <<>>]

\* socket.on('disconnect')
ServerDisconnect(s) ==
    /\ HeadIs(c2s, s, "disconnect")
    /\ IF Falsy(srvDocumentId[s])
       THEN /\ documents' = documents
            /\ s2c' = ConnectionGone(s2c, s)
       ELSE LET id    == srvDocumentId[s]
                docs1 == removeUser(documents, id, s)
                docs2 == getDocument(docs1, id)
                left  == [type |-> "user-left", userId |-> s, users |-> docs2[id].users]
            IN  /\ documents' = docs2
                /\ s2c' = ConnectionGone(broadcastToDocument(s2c, docs2, id, left, NoSocket), s)
    /\ disconnected' = disconnected \cup {s}
    /\ c2s' = [c2s EXCEPT ![s] = Tail(@)]
    /\ UNCHANGED <<colorIndex, srvDocumentId, srvUser>>
    /\ UNCHANGED <<received, nextSocket, nextOpId, sent>>
    /\ UNCHANGED cliVars
    /\ UNCHANGED algVars

(***************************************************************************)
(* The client: operations.ts (detectChange), SocketManager and Editor.tsx  *)
(***************************************************************************)
\* the Editor's userId ("user_" and a random suffix): distinct per client
userId(c) == IF c = "c1" THEN <<1>> ELSE <<2>>

\* the character a client types
KeyOf(c) == IF c = "c1" THEN "x" ELSE "y"

\* a variant that places an insert at the caret
detectChange_AtCaret(oldText, newText, cursorPosition, user, id) ==
    IF oldText = newText THEN Null
    ELSE IF Len(newText) > Len(oldText)
    THEN LET insertedLength == Len(newText) - Len(oldText)
             position       == cursorPosition
             insertedText   == Substring(newText, position - insertedLength, cursorPosition)
         IN  InsertOperation(id, user, position, insertedText)
    ELSE IF Len(newText) < Len(oldText)
    THEN LET deletedLength == Len(oldText) - Len(newText)
         IN  DeleteOperation(id, user, cursorPosition, deletedLength)
    ELSE Null

\* a variant that places a delete before the caret
detectChange_DeleteBeforeCaret(oldText, newText, cursorPosition, user, id) ==
    IF oldText = newText THEN Null
    ELSE IF Len(newText) > Len(oldText)
    THEN LET insertedLength == Len(newText) - Len(oldText)
             position       == cursorPosition - insertedLength
             insertedText   == Substring(newText, position, cursorPosition)
         IN  InsertOperation(id, user, position, insertedText)
    ELSE IF Len(newText) < Len(oldText)
    THEN LET deletedLength == Len(oldText) - Len(newText)
         IN  DeleteOperation(id, user, cursorPosition - deletedLength, deletedLength)
    ELSE Null

\* detectChange; id is the value generateOperationId returns
detectChange(oldText, newText, cursorPosition, user, id) ==
    IF oldText = newText THEN Null
    ELSE IF Len(newText) > Len(oldText)
    THEN LET insertedLength == Len(newText) - Len(oldText)
             position       == cursorPosition - insertedLength
             insertedText   == Substring(newText, position, cursorPosition)
         IN  InsertOperation(id, user, position, insertedText)
    ELSE IF Len(newText) < Len(oldText)
    THEN LET deletedLength == Len(oldText) - Len(newText)
         IN  DeleteOperation(id, user, cursorPosition, deletedLength)
    ELSE Null

\* the change events of the textarea: the user types its character at a gap
\* (while the text is shorter than MaxContent) or removes a range; each is the
\* new value and the caret after it
TypedEdits(c, text) ==
    IF Len(text) >= MaxContent THEN {}
    ELSE {[value |-> SubSeq(text, 1, p) \o <<KeyOf(c)>> \o SubSeq(text, p + 1, Len(text)),
           caret |-> p + 1] : p \in 0..Len(text)}

RemovedEdits(text) ==
    UNION {{[value |-> SubSeq(text, 1, p) \o SubSeq(text, p + k + 1, Len(text)),
             caret |-> p] : k \in 1..(Len(text) - p)} : p \in 0..Len(text)}

ChangeEvents(c, text) == TypedEdits(c, text) \cup RemovedEdits(text)

\* state.users.filter(u => u.id !== socketManager.getSocketId())
WithoutSelf(users, socketId) == SelectSeq(users, LAMBDA u : u.id # socketId)

\* the relay has handled every message sent to it: the clients of the model
\* take their next step only then
ServerIdle == \A s \in Sockets : c2s[s] = <<>>

\* SocketManager 'connect' event: connected = true, onConnect (setIsConnected,
\* joinDocument), then the re-join of currentDocumentId
ClientConnect(c) ==
    /\ ServerIdle
    /\ socket[c] # NoSocket
    /\ socket[c] <= MaxSockets
    /\ ~connected[c]
    /\ LET join(id)   == [type |-> "join-document", documentId |-> id]
           first      == documentId[c]
           rejoin     == IF first # NoDoc THEN <<join(first)>> ELSE <<>>
       IN  /\ c2s' = [c2s EXCEPT ![socket[c]] = @ \o <<join(first)>> \o rejoin]
           /\ smDocumentId' = [smDocumentId EXCEPT ![c] = first]
    /\ connected' = [connected EXCEPT ![c] = TRUE]
    /\ isConnected' = [isConnected EXCEPT ![c] = TRUE]
    /\ UNCHANGED <<s2c, received, nextSocket, nextOpId, sent>>
    /\ UNCHANGED <<socket, documentId, content, prevContent, rendered, remoteUsers>>
    /\ UNCHANGED srvVars
    /\ UNCHANGED algVars

\* a variant that leaves prevContent as it is
onOperation_KeepsPrev(c, data) ==
    [content |-> apply(rendered[c], data.operation), prevContent |-> prevContent[c]]

\* onOperation: the content and prevContent it sets; content is the one its
\* closure captured when the effect last ran
onOperation(c, data) ==
    LET newContent == apply(rendered[c], data.operation)
    IN  [content |-> newContent, prevContent |-> newContent]

\* the callbacks onDocumentState, onOperation, onUserJoined, onUserLeft and
\* onCursorUpdate, run on the next message of the client's socket; onOperation
\* applies to the content its closure captured when the effect last ran
ClientReceive(c) ==
    /\ ServerIdle
    /\ socket[c] # NoSocket
    /\ connected[c]
    /\ s2c[socket[c]] # <<>>
    /\ LET s   == socket[c]
           msg == Head(s2c[s])
       IN  /\ s2c' = [s2c EXCEPT ![s] = Tail(@)]
           /\ IF msg.type = "document-state"
              THEN /\ content' = [content EXCEPT ![c] = msg.content]
                   /\ prevContent' = [prevContent EXCEPT ![c] = msg.content]
                   /\ remoteUsers' = [remoteUsers EXCEPT ![c] = WithoutSelf(msg.users, s)]
                   /\ UNCHANGED received
              ELSE IF msg.type = "operation"
              THEN /\ content' = [content EXCEPT ![c] = onOperation(c, msg).content]
                   /\ prevContent' = [prevContent EXCEPT ![c] = onOperation(c, msg).prevContent]
                   /\ received' = [received EXCEPT ![s] = Append(@, msg.version)]
                   /\ UNCHANGED remoteUsers
              ELSE IF msg.type \in {"user-joined", "user-left"}
              THEN /\ remoteUsers' = [remoteUsers EXCEPT ![c] = WithoutSelf(msg.users, s)]
                   /\ UNCHANGED <<content, prevContent, received>>
              ELSE /\ remoteUsers' = [remoteUsers EXCEPT ![c] =
                          [i \in DOMAIN @ |->
                              IF @[i].id = msg.userId
                              THEN [@[i] EXCEPT !.cursor = msg.position]
                              ELSE @[i]]]
                   /\ UNCHANGED <<content, prevContent, received>>
    /\ UNCHANGED <<c2s, nextSocket, nextOpId, sent>>
    /\ UNCHANGED <<socket, connected, smDocumentId, documentId, rendered, isConnected>>
    /\ UNCHANGED srvVars
    /\ UNCHANGED algVars

\* the client -> server channels after the cleanup of the effect,
\* socketManager.disconnect(): a connected socket sends its disconnect
ChannelsAfterDisconnect(ch, c) ==
    IF socket[c] # NoSocket /\ connected[c]
    THEN [ch EXCEPT ![socket[c]] = Append(@, [type |-> "disconnect"])]
    ELSE ch

\* the effect of Editor.tsx with dependency content: cleanup
\* (socketManager.disconnect()) and run again (socketManager.connect(),
\* socketManager.on(callbacks)) with the callbacks capturing newContent
EffectRerun(c, ch, newContent) ==
    /\ c2s' = ChannelsAfterDisconnect(ch, c)
    /\ s2c' = IF socket[c] # NoSocket /\ socket[c] <= MaxSockets
              THEN [s2c EXCEPT ![socket[c]] = <<>>]
              ELSE s2c
    /\ socket' = [socket EXCEPT ![c] = nextSocket]
    /\ nextSocket' = nextSocket + 1
    /\ connected' = [connected EXCEPT ![c] = FALSE]
    /\ smDocumentId' = [smDocumentId EXCEPT ![c] = NoDoc]
    /\ isConnected' = [isConnected EXCEPT ![c] = IF connected[c] THEN FALSE ELSE @]
    /\ rendered' = [rendered EXCEPT ![c] = newContent]

\* React commits a content set by a socket callback: the dependency content
\* changed since the effect last ran, so the effect is cleaned up and run again
Commit(c) ==
    /\ ServerIdle
    /\ content[c] # rendered[c]
    /\ EffectRerun(c, c2s, content[c])
    /\ UNCHANGED <<received, nextOpId, sent>>
    /\ UNCHANGED <<documentId, content, prevContent, remoteUsers>>
    /\ UNCHANGED srvVars
    /\ UNCHANGED algVars

\* handleChange on a change event of the enabled textarea, with the commit of
\* the new content and the effect that follows it
HandleChange(c) ==
    /\ ServerIdle
    /\ nextOpId <= MaxEdits
    /\ isConnected[c]
    /\ content[c] = rendered[c]
    /\ \E e \in ChangeEvents(c, content[c]) :
          LET operation == detectChange(prevContent[c], e.value, e.caret, userId(c), nextOpId)
              canSend   == /\ operation # Null
                           /\ socket[c] # NoSocket /\ connected[c]
                           /\ smDocumentId[c] # NoDoc
              ch        == IF canSend
                           THEN [c2s EXCEPT ![socket[c]] =
                                   Append(@, [type |-> "operation", operation |-> operation])]
                           ELSE c2s
          IN  /\ content' = [content EXCEPT ![c] = e.value]
              /\ prevContent' = [prevContent EXCEPT ![c] = e.value]
              /\ nextOpId' = IF operation # Null THEN nextOpId + 1 ELSE nextOpId
              /\ EffectRerun(c, ch, e.value)
    /\ UNCHANGED <<received, sent, documentId, remoteUsers>>
    /\ UNCHANGED srvVars
    /\ UNCHANGED algVars

(***************************************************************************)
(* The system: two mounted editors whose first effect has run (each has    *)
(* created its socket) and a relay with no document.                       *)
(***************************************************************************)
Init ==
    /\ documents = <<>>
    /\ colorIndex = 0
    /\ srvDocumentId = [s \in Sockets |-> NoDoc]
    /\ srvUser = [s \in Sockets |-> NoUser]
    /\ disconnected = {}
    /\ c2s = [s \in Sockets |-> <<>>]
    /\ s2c = [s \in Sockets |-> <<>>]
    /\ received = [s \in Sockets |-> <<>>]
    /\ nextSocket = 3
    /\ nextOpId = 1
    /\ sent = 0
    /\ socket = [c \in Clients |-> IF c = "c1" THEN 1 ELSE 2]
    /\ connected = [c \in Clients |-> FALSE]
    /\ smDocumentId = [c \in Clients |-> NoDoc]
    /\ documentId \in {f \in [Clients -> Docs] : f["c1"] = "d1"}
    /\ content = [c \in Clients |-> <<>>]
    /\ prevContent = [c \in Clients |-> <<>>]
    /\ rendered = [c \in Clients |-> <<>>]
    /\ isConnected = [c \in Clients |-> FALSE]
    /\ remoteUsers = [c \in Clients |-> <<>>]
    /\ base = <<>>
    /\ opA = Null
    /\ opB = Null
    /\ phase = "system"
    /\ out = NoResult
    /\ queue = <<>>
    /\ editedText = <<>>
    /\ caretAt = 0

Next ==
    \/ \E s \in Sockets : ServerJoinDocument(s)
    \/ \E s \in Sockets : ServerOperation(s)
    \/ \E s \in Sockets : ServerDisconnect(s)
    \/ \E c \in Clients : ClientConnect(c)
    \/ \E c \in Clients : ClientReceive(c)
    \/ \E c \in Clients : Commit(c)
    \/ \E c \in Clients : HandleChange(c)

Spec == Init /\ [][Next]_vars

(***************************************************************************)
(* The same system when users take turns: a local edit is made only once   *)
(* every earlier operation has reached the relay and every peer.           *)
(***************************************************************************)
\* no operation is on its way to the relay or to a client
NoOperationInFlight ==
    \A s \in Sockets :
        /\ \A i \in DOMAIN c2s[s] : c2s[s][i].type # "operation"
        /\ \A i \in DOMAIN s2c[s] : s2c[s][i].type # "operation"

\* handleChange of a user who types once nothing else is in flight
HandleChangeInTurn(c) ==
    /\ NoOperationInFlight
    /\ HandleChange(c)

NextSeq ==
    \/ \E s \in Sockets : ServerJoinDocument(s)
    \/ \E s \in Sockets : ServerOperation(s)
    \/ \E s \in Sockets : ServerDisconnect(s)
    \/ \E c \in Clients : ClientConnect(c)
    \/ \E c \in Clients : ClientReceive(c)
    \/ \E c \in Clients : Commit(c)
    \/ \E c \in Clients : HandleChangeInTurn(c)

SpecSeq == Init /\ [][NextSeq]_vars

(***************************************************************************)
(* Single functions called on bounded inputs: apply on operations in and   *)
(* out of range, transformAgainst on a queue, detectChange on two texts    *)
(* and a caret.                                                            *)
(***************************************************************************)
\* the texts over a set of code units, up to a length
TextsOver(units, n) == UNION {[1..k -> units] : k \in 0..n}

\* operations whose position and length go up to MaxBeyond past the text
OpsNear(text) ==
    {InsertOperation(1, <<1>>, p, Repeat("X", k)) :
        p \in 0..(Len(text) + MaxBeyond), k \in 1..MaxTextLen}
    \cup {DeleteOperation(1, <<1>>, p, k) :
        p \in 0..(Len(text) + MaxBeyond), k \in 0..(Len(text) + MaxBeyond)}

\* the operations a queue holds: single-unit inserts and deletes in range, by
\* a user id below and a user id above the one of the transformed operation
QueueOps(text) ==
    {InsertOperation(2, u, p, <<"Y">>) : u \in {<<1>>, <<2>>}, p \in 0..Len(text)}
    \cup UNION {{DeleteOperation(2, u, p, k) : u \in {<<1>>, <<2>>}, k \in 1..(Len(text) - p)} :
                p \in 0..Len(text)}

QueuesOn(text) == UNION {[1..n -> QueueOps(text)] : n \in 0..MaxQueue}

FnIdle ==
    /\ opB = Null
    /\ out = NoResult
    /\ SysIdle

InitFn ==
    /\ FnIdle
    /\ \/ /\ phase = "apply-input"
          /\ base \in BaseTexts
          /\ opA \in OpsNear(base)
          /\ queue = <<>> /\ editedText = <<>> /\ caretAt = 0
       \/ /\ phase = "queue-input"
          /\ base \in {t \in BaseTexts : Len(t) <= MaxQueue}
          /\ opA \in {op \in OpsOn(base, 1, "X") : op.userId = <<1, 1>>}
          /\ queue \in QueuesOn(base)
          /\ editedText = <<>> /\ caretAt = 0
       \/ /\ phase = "detect-input"
          /\ base \in TextsOver({"a", "b"}, MaxDetectLen)
          /\ editedText \in TextsOver({"a", "b"}, MaxDetectLen)
          /\ caretAt \in 0..Len(editedText)
          /\ opA = Null /\ queue = <<>>

\* OTEngine.apply(base, opA): it returns a text on every input
ApplyOp ==
    /\ phase = "apply-input"
    /\ phase' = "applied"
    /\ out' = [kind |-> "text", text |-> apply(base, opA)]
    /\ UNCHANGED <<base, opA, opB, queue, editedText, caretAt>>
    /\ UNCHANGED sysVars

\* OTEngine.transformAgainst(opA, queue)
TransformAgainstQueue ==
    /\ phase = "queue-input"
    /\ phase' = "queued"
    /\ out' = [kind |-> "operation", op |-> transformAgainst(opA, queue)]
    /\ UNCHANGED <<base, opA, opB, queue, editedText, caretAt>>
    /\ UNCHANGED sysVars

\* detectChange(base, editedText, caretAt, userId)
DetectChangeCall ==
    /\ phase = "detect-input"
    /\ phase' = "detected"
    /\ out' = [kind |-> "change", op |-> detectChange(base, editedText, caretAt, <<1>>, 1)]
    /\ UNCHANGED <<base, opA, opB, queue, editedText, caretAt>>
    /\ UNCHANGED sysVars

NextFn == ApplyOp \/ TransformAgainstQueue \/ DetectChangeCall

SpecFn == InitFn /\ [][NextFn]_vars

(***************************************************************************)
(* The relay with connections that are not Editors: each sends any         *)
(* message the relay listens for, in any order, until it disconnects.      *)
(***************************************************************************)
Peers == 1..MaxPeers

\* document ids a join-document carries; the empty string is one of them
PeerDocs == {"d1", "d2", ""}

\* the operations an operation message carries: an insert, a delete and an
\* operation of another type
PeerOperations(id) ==
    {InsertOperation(id, <<1>>, 0, <<"x">>),
     DeleteOperation(id, <<1>>, 0, 1),
     [type |-> "retain", id |-> id, userId |-> <<1>>, position |-> 0, length |-> 1]}

PeerMessages(id) ==
    {[type |-> "join-document", documentId |-> d] : d \in PeerDocs}
    \cup {[type |-> "operation", operation |-> op] : op \in PeerOperations(id)}
    \cup {[type |-> "cursor-position", position |-> 1], [type |-> "disconnect"]}

InitRelay ==
    /\ SysIdle
    /\ base = <<>>
    /\ opA = Null
    /\ opB = Null
    /\ phase = "relay"
    /\ out = NoResult
    /\ queue = <<>>
    /\ editedText = <<>>
    /\ caretAt = 0

\* a connection emits a message; once it has disconnected it emits nothing
PeerSend(s) ==
    /\ ServerIdle
    /\ sent < MaxSends
    /\ s \notin disconnected
    /\ \E msg \in PeerMessages(sent + 1) :
          c2s' = [c2s EXCEPT ![s] = Append(@, msg)]
    /\ sent' = sent + 1
    /\ UNCHANGED <<s2c, received, nextSocket, nextOpId>>
    /\ UNCHANGED srvVars
    /\ UNCHANGED cliVars
    /\ UNCHANGED algVars

NextRelay ==
    \/ \E s \in Peers : PeerSend(s)
    \/ \E s \in Sockets : ServerJoinDocument(s)
    \/ \E s \in Sockets : ServerOperation(s)
    \/ \E s \in Sockets : ServerCursorPosition(s)
    \/ \E s \in Sockets : ServerDisconnect(s)

SpecRelay == InitRelay /\ [][NextRelay]_vars

(***************************************************************************)
(* Properties of the algebra (specification SpecAlg).                      *)
(***************************************************************************)
Transformed == out.kind = "transform"

DistinctUsers == opA.userId # opB.userId

\* C1: TP1 convergence. For every base text and every two in-range
\* operations of distinct users, applying a then transform(b, a) gives the
\* same text as applying b then transform(a, b).
C1_TP1Convergence ==
    (Transformed /\ DistinctUsers) => out.left = out.right

\* the insert ins lies strictly inside the range of the delete del
InsertInsideDelete(del, ins) ==
    /\ del.type = "delete"
    /\ ins.type = "insert"
    /\ del.position < ins.position
    /\ ins.position < del.position + del.length

\* the text with the range of del removed and the text of ins put at its start
RangeReplacedBy(text, del, ins) ==
    SubSeq(text, 1, del.position) \o ins.text
        \o SubSeq(text, del.position + del.length + 1, Len(text))

\* C4: insert inside a delete range. The transformed insert has the
\* position of the delete, and both application orders give the base with
\* the range removed and the inserted text at the start of the range.
C4_InsertInsideDeleteConverges ==
    /\ (Transformed /\ InsertInsideDelete(opA, opB)) =>
          /\ out.ba.position = opA.position
          /\ out.left = RangeReplacedBy(base, opA, opB)
          /\ out.right = RangeReplacedBy(base, opA, opB)
    /\ (Transformed /\ InsertInsideDelete(opB, opA)) =>
          /\ out.ab.position = opB.position
          /\ out.left = RangeReplacedBy(base, opB, opA)
          /\ out.right = RangeReplacedBy(base, opB, opA)

SamePositionInserts ==
    /\ opA.type = "insert"
    /\ opB.type = "insert"
    /\ opA.position = opB.position
    /\ DistinctUsers

\* the base with the texts first and second inserted, in this order, at position p
BothInsertedAt(text, p, first, second) ==
    SubSeq(text, 1, p) \o first \o second \o SubSeq(text, p + 1, Len(text))

\* C5: tie-break determinism. Of two inserts at one position by distinct
\* users only the insert of the greater user id is shifted, by the length of
\* the other's text; both orders give the same text, the smaller user id's
\* text immediately left of the greater's.
C5_TieBreak ==
    (Transformed /\ SamePositionInserts) =>
        IF LexLess(opA.userId, opB.userId)
        THEN /\ out.ab = opA
             /\ out.ba = [opB EXCEPT !.position = opB.position + Len(opA.text)]
             /\ out.left = BothInsertedAt(base, opA.position, opA.text, opB.text)
             /\ out.right = out.left
        ELSE /\ out.ba = opB
             /\ out.ab = [opA EXCEPT !.position = opA.position + Len(opB.text)]
             /\ out.left = BothInsertedAt(base, opA.position, opB.text, opA.text)
             /\ out.right = out.left

C5_Witness ==
    /\ Transformed
    /\ SamePositionInserts
    /\ LexLess(opA.userId, opB.userId)
    /\ base = <<"a", "b">>
    /\ opA.position = 1
    /\ out.left = <<"a", "X", "Y", "b">>
    /\ out.right = <<"a", "X", "Y", "b">>

OverlappingDeletes ==
    /\ opA.type = "delete"
    /\ opB.type = "delete"
    /\ Max(opA.position, opB.position)
          < Min(opA.position + opA.length, opB.position + opB.length)

\* the text without the union of the two overlapping ranges
UnionRemoved(text, d1, d2) ==
    SubSeq(text, 1, Min(d1.position, d2.position))
        \o SubSeq(text, Max(d1.position + d1.length, d2.position + d2.length) + 1, Len(text))

\* C6: overlapping deletes converge. Both application orders give the base
\* with the union of the two ranges removed.
C6_OverlappingDeletesConverge ==
    (Transformed /\ OverlappingDeletes) =>
        /\ out.left = out.right
        /\ out.left = UnionRemoved(base, opA, opB)

C6_Witness ==
    /\ Transformed
    /\ OverlappingDeletes
    /\ opA.position = 2 /\ opA.length = 3
    /\ opB.position = 3 /\ opB.length = 3
    /\ out.left = SubSeq(base, 1, 2) \o SubSeq(base, 7, Len(base))
    /\ out.right = out.left

Composed == out.kind = "compose" /\ out.c # Null

\* C7: compose soundness. When compose(a, b) returns an operation c, then
\* applying a and then b gives the same text as applying c.
C7_ComposeSound ==
    Composed => out.seq = out.one

C7_Witness ==
    /\ Composed
    /\ out.c.type = "insert"
    /\ Len(out.c.text) = 2
    /\ opA.position > 0
    /\ out.seq = out.one

(***************************************************************************)
(* Properties of the relay and the clients (specification Spec).           *)
(***************************************************************************)
\* the roster of the document a client edits holds the client's connected socket
Joined(c) ==
    /\ connected[c]
    /\ documentId[c] \in DOMAIN documents
    /\ socket[c] \in RosterIds(documents[documentId[c]])

\* nothing is in flight: the relay has handled every message, every connected
\* client has handled every message sent to it and has committed its content
Quiescent ==
    /\ ServerIdle
    /\ \A c \in Clients : content[c] = rendered[c]
    /\ \A c \in Clients : connected[c] => s2c[socket[c]] = <<>>

\* C2: end-to-end convergence. Once nothing is in flight, the content of
\* every joined client is the content the relay holds for its document.
C2_Convergence ==
    Quiescent =>
        \A c \in Clients : Joined(c) => content[c] = documents[documentId[c]].content

\* the text the logged operations give when applied in order
RECURSIVE Replay(_, _)
Replay(text, operations) ==
    IF operations = <<>> THEN text
    ELSE Replay(apply(text, Head(operations)), Tail(operations))

\* C3: in every state of the relay and for every document, version is the
\* length of the log and the log applied in order to the empty text
\* gives the content.
C3_LogReplaysToContent ==
    \A id \in DOMAIN documents :
        /\ documents[id].version = Len(documents[id].operations)
        /\ Replay(<<>>, documents[id].operations) = documents[id].content

C3_Witness ==
    \E id \in DOMAIN documents :
        /\ Len(documents[id].operations) >= 2
        /\ documents[id].operations[2].type = "delete"
        /\ documents[id].content # <<>>
        /\ Replay(<<>>, documents[id].operations) = documents[id].content

\* the step is the operation handler of connection s committing the operation
OperationCommitted(s) ==
    /\ HeadIs(c2s, s, "operation")
    /\ srvDocumentId[s] # NoDoc
    /\ c2s'[s] = Tail(c2s[s])

\* C8: operation fan-out. A committed operation is sent, with the new
\* version, to every other connection of the document's roster, and to no
\* other connection: not to the sender, not outside the roster.
C8_FanOut ==
    [][\A s \in Sockets :
          OperationCommitted(s) =>
              LET id  == srvDocumentId[s]
                  msg == [type |-> "operation",
                          operation |-> Head(c2s[s]).operation,
                          version |-> documents'[id].version]
              IN  \A r \in Sockets :
                      IF r \in RosterIds(documents'[id]) /\ r # s
                      THEN s2c'[r] = Append(s2c[r], msg)
                      ELSE s2c'[r] = s2c[r]]_vars

\* an operation message is in flight to one roster member while the roster
\* holds another connection and a connection outside the roster exists
C8_Witness ==
    \E id \in DOMAIN documents :
        \E r \in RosterIds(documents[id]) :
            /\ Cardinality(RosterIds(documents[id])) >= 2
            /\ s2c[r] # <<>>
            /\ s2c[r][Len(s2c[r])].type = "operation"
            /\ s2c[r][Len(s2c[r])].version = documents[id].version
            /\ \E q \in Sockets : q \notin RosterIds(documents[id]) /\ s2c[q] = <<>>

\* the versions of the operation messages in a channel, in order
RECURSIVE OperationVersions(_)
OperationVersions(ch) ==
    IF ch = <<>> THEN <<>>
    ELSE IF Head(ch).type = "operation"
    THEN <<Head(ch).version>> \o OperationVersions(Tail(ch))
    ELSE OperationVersions(Tail(ch))

StrictlyIncreasing(seq) ==
    \A i \in DOMAIN seq : \A j \in DOMAIN seq : i < j => seq[i] < seq[j]

\* C9: commit order is preserved per peer. The i-th entry of a log (counted
\* from 1) has serverVersion i, and the versions of the operation messages one connection
\* has received and is still to receive are strictly increasing.
C9_CommitOrder ==
    /\ \A id \in DOMAIN documents :
           \A i \in DOMAIN documents[id].operations :
               documents[id].operations[i].serverVersion = i
    /\ \A s \in Sockets :
           StrictlyIncreasing(received[s] \o OperationVersions(s2c[s]))

C9_Witness ==
    \E s \in Sockets :
        /\ Len(received[s]) >= 2
        /\ \E id \in DOMAIN documents : Len(documents[id].operations) >= 3

\* the delete removes nothing from the text: its position is at or beyond the
\* end of the text or its length is 0
Degenerate(text, operation) ==
    /\ operation.type = "delete"
    /\ (operation.position >= Len(text) \/ operation.length <= 0)

\* C10: a submitted delete that is degenerate for the current content is
\* dropped: content, version and log of the document stay as they are.
C10_DegenerateDeleteDropped ==
    [][\A s \in Sockets :
          (/\ OperationCommitted(s)
           /\ Degenerate(documents[srvDocumentId[s]].content, Head(c2s[s]).operation))
              => documents'[srvDocumentId[s]] = documents[srvDocumentId[s]]]_vars

(***************************************************************************)
(* Properties of single functions (specification SpecFn).                  *)
(***************************************************************************)
\* apply has been called on base and opA
Applied == phase = "applied"

\* the operation reaches beyond the end of the text
OutOfRange(text, op) ==
    IF op.type = "insert"
    THEN op.position > Len(text)
    ELSE op.position + op.length > Len(text)

\* C11: apply fails with an OutOfRange error, instead of returning a text,
\* when an insert's position is greater than the length of the text or a
\* delete's position + length is greater than the length of the text.
C11_ApplyOutOfRangeFails ==
    (Applied /\ OutOfRange(base, opA)) => out.kind = "OutOfRange"

\* the fold of transform over a queue, from the left: the fold over all but
\* the last operation, transformed against the last
RECURSIVE FoldTransform(_, _)
FoldTransform(op, operations) ==
    IF operations = <<>> THEN op
    ELSE transform(FoldTransform(op, SubSeq(operations, 1, Len(operations) - 1)),
                   operations[Len(operations)])

\* C18: transformAgainst(op, [q1..qn]) is the left fold
\* transform(...transform(transform(op, q1), q2)..., qn), and op itself for
\* the empty queue.
C18_TransformAgainstIsFold ==
    phase = "queued" =>
        /\ out.op = FoldTransform(opA, queue)
        /\ queue = <<>> => out.op = opA

\* a queue of two operations, each of which changes the operation
C18_Witness ==
    /\ phase = "queued"
    /\ Len(queue) = 2
    /\ transform(opA, queue[1]) # opA
    /\ out.op # transform(opA, queue[1])
    /\ out.op = transform(transform(opA, queue[1]), queue[2])

\* C19: apply totality. For an operation in range apply returns a text; an
\* insert makes it longer by the length of its text, a delete shorter by
\* its length, and the units outside the affected range stay in order.
C19_ApplyTotality ==
    (Applied /\ ~OutOfRange(base, opA)) =>
        LET p == opA.position
            t == out.text
        IN  /\ out.kind = "text"
            /\ IF opA.type = "insert"
               THEN /\ Len(t) = Len(base) + Len(opA.text)
                    /\ SubSeq(t, 1, p) = SubSeq(base, 1, p)
                    /\ SubSeq(t, p + 1, p + Len(opA.text)) = opA.text
                    /\ SubSeq(t, p + Len(opA.text) + 1, Len(t)) = SubSeq(base, p + 1, Len(base))
               ELSE /\ Len(t) = Len(base) - opA.length
                    /\ SubSeq(t, 1, p) = SubSeq(base, 1, p)
                    /\ SubSeq(t, p + 1, Len(t)) = SubSeq(base, p + opA.length + 1, Len(base))

\* a delete in the middle of the text: units remain on both sides
C19_Witness ==
    /\ Applied
    /\ opA.type = "delete"
    /\ opA.position >= 1
    /\ opA.length >= 2
    /\ opA.position + opA.length < Len(base)
    /\ Len(out.text) = Len(base) - opA.length

\* the units of text at the indices from..to-1 that exist
Slice(text, from, to) ==
    [i \in 1..(Min(to, Len(text)) - Max(0, from)) |-> text[Max(0, from) + i]]

\* C20: detectChange returns null when old equals new or when the lengths
\* are equal; an insert at caret - (len(new) - len(old)) carrying
\* new[position, caret) when new is longer; a delete at the caret of length
\* len(old) - len(new) when new is shorter.
C20_DetectChange ==
    phase = "detected" =>
        LET change == out.op
            grown  == Len(editedText) - Len(base)
        IN  IF grown = 0 THEN change = Null
            ELSE IF grown > 0
            THEN /\ change.type = "insert"
                 /\ change.position = caretAt - grown
                 /\ change.text = Slice(editedText, change.position, caretAt)
            ELSE /\ change.type = "delete"
                 /\ change.position = caretAt
                 /\ change.length = -grown

\* an insert detected behind the first unit of a non-empty old text
C20_Witness ==
    /\ phase = "detected"
    /\ base # <<>>
    /\ out.op.type = "insert"
    /\ out.op.position >= 1
    /\ out.op.text = <<editedText[caretAt]>>

(***************************************************************************)
(* Properties of the relay under any sender (specification SpecRelay).     *)
(***************************************************************************)
\* the step is the relay's handler of the next message of connection s
Handled(s, type) == HeadIs(c2s, s, type) /\ c2s'[s] = Tail(c2s[s])

\* C12: an operation or cursor-position message from a connection that has
\* not joined any document is dropped: no document changes or is created
\* and no message is sent.
C12_NotJoinedDropped ==
    [][\A s \in Sockets :
          (/\ Handled(s, "operation") \/ Handled(s, "cursor-position")
           /\ srvDocumentId[s] = NoDoc)
              => (documents' = documents /\ s2c' = s2c)]_vars

\* a connection that never joined has an operation for the relay while
\* another connection is in the roster of a document
C12_Witness ==
    \E s \in Sockets :
        /\ srvDocumentId[s] = NoDoc
        /\ HeadIs(c2s, s, "operation")
        /\ \E id \in DOMAIN documents : RosterIds(documents[id]) # {}

\* C13: an operation message whose operation is neither an insert nor a
\* delete, from a joined connection, is dropped: content, version and log
\* of the document stay and nothing is broadcast.
C13_MalformedDropped ==
    [][\A s \in Sockets :
          (/\ Handled(s, "operation")
           /\ ~Falsy(srvDocumentId[s])
           /\ Head(c2s[s]).operation.type \notin {"insert", "delete"})
              => (documents' = documents /\ s2c' = s2c)]_vars

\* C14: on join-document the joining connection, and only it, is sent a
\* document-state with the content, version and roster of the document at
\* that moment, the new user included; every other member of the document,
\* and no one else, is sent user-joined.
C14_JoinSnapshot ==
    [][\A s \in Sockets :
          Handled(s, "join-document") =>
              LET id  == Head(c2s[s]).documentId
                  doc == documents'[id]
                  was == IF id \in DOMAIN documents THEN documents[id].content ELSE <<>>
              IN  /\ s \in RosterIds(doc)
                  /\ doc.content = was
                  /\ s2c'[s] = Append(s2c[s],
                                     [type |-> "document-state", content |-> doc.content,
                                      version |-> doc.version, users |-> doc.users])
                  /\ \A r \in Sockets \ {s} :
                         IF r \in RosterIds(doc)
                         THEN /\ Len(s2c'[r]) = Len(s2c[r]) + 1
                              /\ SubSeq(s2c'[r], 1, Len(s2c[r])) = s2c[r]
                              /\ s2c'[r][Len(s2c'[r])].type = "user-joined"
                              /\ s2c'[r][Len(s2c'[r])].user.id = s
                              /\ s2c'[r][Len(s2c'[r])].users = doc.users
                         ELSE s2c'[r] = s2c[r]]_vars

\* the last message sent to one connection is the snapshot of a non-empty
\* document with two users, the last sent to another is user-joined
C14_Witness ==
    \E s \in Sockets, r \in Sockets :
        /\ s # r
        /\ s2c[s] # <<>> /\ s2c[r] # <<>>
        /\ s2c[s][Len(s2c[s])].type = "document-state"
        /\ s2c[s][Len(s2c[s])].content # <<>>
        /\ Len(s2c[s][Len(s2c[s])].users) = 2
        /\ s2c[r][Len(s2c[r])].type = "user-joined"
        /\ s2c[r][Len(s2c[r])].user.id = s

\* C15: a connection is bound to at most one document: it is in the roster
\* of document D exactly when its currentDocumentId is D and it has not
\* disconnected, and a join-document while joined elsewhere removes it from
\* the roster of the previous document.
C15_OneDocumentPerConnection ==
    /\ [](\A s \in Sockets : \A D \in DOMAIN documents :
              s \in RosterIds(documents[D])
                  <=> (srvDocumentId[s] = D /\ s \notin disconnected))
    /\ [][\A s \in Sockets :
             (/\ Handled(s, "join-document")
              /\ srvDocumentId[s] \in DOMAIN documents
              /\ srvDocumentId[s] # Head(c2s[s]).documentId)
                 => s \notin RosterIds(documents'[srvDocumentId[s]])]_vars

\* C16: on disconnect of a joined connection the user leaves the roster of
\* its document, every remaining member is sent user-left with the roster
\* after the removal, and content, version and log of the document stay.
C16_DisconnectLeaves ==
    [][\A s \in Sockets :
          (Handled(s, "disconnect") /\ srvDocumentId[s] # NoDoc) =>
              LET id  == srvDocumentId[s]
                  doc == documents'[id]
              IN  /\ s \notin RosterIds(doc)
                  /\ \A r \in RosterIds(doc) :
                         s2c'[r] = Append(s2c[r], [type |-> "user-left", userId |-> s,
                                                   users |-> doc.users])
                  /\ doc.content = documents[id].content
                  /\ doc.version = documents[id].version
                  /\ doc.operations = documents[id].operations]_vars

(***************************************************************************)
(* Rejoin of an Editor (specification Spec).                               *)
(***************************************************************************)
\* the step is client c running a callback on the next message of its socket
Received(c, type) ==
    /\ socket[c] # NoSocket
    /\ connected[c]
    /\ HeadIs(s2c, socket[c], type)
    /\ socket'[c] = socket[c]
    /\ s2c'[socket[c]] = Tail(s2c[socket[c]])

\* C17: rejoin after disconnect. The document-state a join is answered with
\* carries the relay's content and version at that moment, the version being
\* the length of the log; once the client has processed it, its content and
\* prevContent are the content of the snapshot, whatever they were before.
C17_RejoinSnapshot ==
    /\ [][\A s \in Sockets :
             Handled(s, "join-document") =>
                 LET doc   == documents'[Head(c2s[s]).documentId]
                     state == s2c'[s][Len(s2c'[s])]
                 IN  /\ state.type = "document-state"
                     /\ state.content = doc.content
                     /\ state.version = doc.version
                     /\ state.version = Len(doc.operations)]_vars
    /\ [][\A c \in Clients :
             Received(c, "document-state") =>
                 /\ content'[c] = Head(s2c[socket[c]]).content
                 /\ prevContent'[c] = Head(s2c[socket[c]]).content]_vars

\* a client on a socket it created after its first one is about to process
\* a snapshot of a document with logged operations that differs from its content
C17_Witness ==
    \E c \in Clients :
        /\ socket[c] > Cardinality(Clients)
        /\ connected[c]
        /\ HeadIs(s2c, socket[c], "document-state")
        /\ Head(s2c[socket[c]]).content # content[c]
        /\ Head(s2c[socket[c]]).version >= 2
        /\ content[c] # <<>>

(***************************************************************************)
(* Case tables and validity of transform (specification SpecAlg).          *)
(***************************************************************************)
\* the end of the range a delete removes
EndOf(del) == del.position + del.length

\* C22: delete against delete follows the case table. transform(a, b) is a
\* shifted left by b.length when b ends at or before the start of a, a
\* itself when b starts at or after the end of a, and otherwise a delete of
\* length a.length - overlap at b.position if b.position <= a.position,
\* else at a.position; the length is never negative.
C22_DeleteDeleteTable ==
    (Transformed /\ opA.type = "delete" /\ opB.type = "delete") =>
        LET overlap == Min(EndOf(opA), EndOf(opB)) - Max(opA.position, opB.position)
        IN  /\ out.ab.length >= 0
            /\ IF EndOf(opB) <= opA.position
               THEN out.ab = [opA EXCEPT !.position = opA.position - opB.length]
               ELSE IF opB.position >= EndOf(opA)
               THEN out.ab = opA
               ELSE out.ab = [opA EXCEPT
                                 !.position = IF opB.position <= opA.position
                                              THEN opB.position ELSE opA.position,
                                 !.length = opA.length - overlap]

\* b starts before a and covers all of it: the result is a delete of length 0
\* at the position of b
C22_Witness ==
    /\ Transformed
    /\ opA.type = "delete"
    /\ opB.type = "delete"
    /\ opB.position < opA.position
    /\ EndOf(opA) < EndOf(opB)
    /\ out.ab.length = 0
    /\ out.ab.position = opB.position

\* C23: delete against insert follows the case table. transform(a, b) is a
\* shifted right by len(b.text) when b.position <= a.position, a extended by
\* len(b.text) when b lies strictly inside the range of a, and a itself when
\* b.position is at or after the end of a.
C23_DeleteInsertTable ==
    (Transformed /\ opA.type = "delete" /\ opB.type = "insert") =>
        IF opB.position <= opA.position
        THEN out.ab = [opA EXCEPT !.position = opA.position + Len(opB.text)]
        ELSE IF opB.position < EndOf(opA)
        THEN out.ab = [opA EXCEPT !.length = opA.length + Len(opB.text)]
        ELSE out.ab = opA

\* an insert at the start of the deleted range: the delete is shifted
C23_Witness ==
    /\ Transformed
    /\ opA.type = "delete"
    /\ opB.type = "insert"
    /\ opB.position = opA.position
    /\ opA.position >= 1
    /\ out.ab.position = opA.position + Len(opB.text)
    /\ out.ab.length = opA.length

\* the operation is in range on the text: position >= 0, length >= 0, and
\* the position of an insert, or the end of a delete, within the text
Valid(text, op) ==
    /\ op.position >= 0
    /\ IF op.type = "insert"
       THEN op.position <= Len(text)
       ELSE op.length >= 0 /\ op.position + op.length <= Len(text)

\* C27: transform preserves validity. For a and b in range on a text s,
\* transform(a, b) is in range on apply(s, b).
C27_TransformPreservesValidity ==
    (Transformed /\ Valid(base, opA) /\ Valid(base, opB)) =>
        /\ Valid(apply(base, opB), out.ab)
        /\ Valid(apply(base, opA), out.ba)

\* an insert at the end of the text against a delete before it: the shifted
\* insert is again at the end of the shorter text
C27_Witness ==
    /\ Transformed
    /\ opA.type = "insert"
    /\ opB.type = "delete"
    /\ opA.position = Len(base)
    /\ EndOf(opB) <= opA.position
    /\ out.ab.position = Len(apply(base, opB))

(***************************************************************************)
(* The Editor's detector baseline (specification Spec).                    *)
(***************************************************************************)
\* C24: the detector baseline tracks the content. After every handler of a
\* client (document-state, remote operation, local edit) prevContent equals
\* content.
C24_PrevContentTracksContent ==
    \A c \in Clients : prevContent[c] = content[c]

\* a client has applied a remote operation on its current socket and holds
\* text
C24_Witness ==
    \E c \in Clients :
        /\ socket[c] # NoSocket
        /\ socket[c] <= MaxSockets
        /\ received[socket[c]] # <<>>
        /\ content[c] # <<>>
        /\ content[c] # rendered[c]
        /\ prevContent[c] = content[c]

(***************************************************************************)
(* The client's connection (specification Spec).                           *)
(***************************************************************************)
\* C29: each time a client's socket connects, the client sends exactly one
\* join-document message, for its document.
C29_OneJoinPerConnect ==
    [][\A c \in Clients :
          (~connected[c] /\ connected'[c])
              => c2s'[socket[c]] =
                     Append(c2s[socket[c]],
                            [type |-> "join-document", documentId |-> documentId[c]])]_vars

\* C30: a client's session is stable while it edits. Once a client has a
\* socket, no step (a local edit, an applied remote operation, a render)
\* gives it another one.
C30_SessionStable ==
    [][\A c \in Clients :
          socket[c] # NoSocket => socket'[c] = socket[c]]_vars

(***************************************************************************)
(* Frames of the relay's handlers (specification SpecRelay).               *)
(***************************************************************************)
\* C25: cursor-position from a joined connection sets that user's cursor to
\* the given value and sends cursor-update to every other member of the
\* document; content, version, log and every other user's record stay.
C25_CursorFrame ==
    [][\A s \in Sockets :
          (Handled(s, "cursor-position") /\ srvDocumentId[s] # NoDoc) =>
              LET id       == srvDocumentId[s]
                  position == Head(c2s[s]).position
                  update   == [type |-> "cursor-update", userId |-> s,
                               position |-> position]
              IN  /\ id \in DOMAIN documents
                  /\ id \in DOMAIN documents'
                  /\ documents'[id].content = documents[id].content
                  /\ documents'[id].version = documents[id].version
                  /\ documents'[id].operations = documents[id].operations
                  /\ Len(documents'[id].users) = Len(documents[id].users)
                  /\ \E i \in DOMAIN documents[id].users : documents[id].users[i].id = s
                  /\ \A i \in DOMAIN documents[id].users :
                         documents'[id].users[i] =
                             IF documents[id].users[i].id = s
                             THEN [documents[id].users[i] EXCEPT !.cursor = position]
                             ELSE documents[id].users[i]
                  /\ \A r \in Sockets :
                         s2c'[r] = IF r \in RosterIds(documents[id]) /\ r # s
                                   THEN Append(s2c[r], update)
                                   ELSE s2c[r]]_vars

\* the document a handled message is for: the one named by a join-document,
\* the sender's current one otherwise
HandledFor(s) ==
    IF HeadIs(c2s, s, "join-document") THEN Head(c2s[s]).documentId
    ELSE srvDocumentId[s]

\* r is in the roster of document D before or after the step
MemberOf(r, D) ==
    \/ D \in DOMAIN documents /\ r \in RosterIds(documents[D])
    \/ D \in DOMAIN documents' /\ r \in RosterIds(documents'[D])

\* C26: documents are independent. A join, operation, cursor-position or
\* disconnect handled for document D leaves content, version, log and roster
\* of every other document as they were, except that a join-document may take
\* the joining connection out of the roster of its previous document, and
\* sends nothing to a connection that is not a member of D.
C26_DocumentsIndependent ==
    [][\A s \in Sockets :
          (c2s[s] # <<>> /\ c2s'[s] = Tail(c2s[s])) =>
              LET D == HandledFor(s)
              IN  /\ \A E \in DOMAIN documents \ {D} :
                         /\ E \in DOMAIN documents'
                         /\ documents'[E].content = documents[E].content
                         /\ documents'[E].version = documents[E].version
                         /\ documents'[E].operations = documents[E].operations
                         /\ \/ documents'[E].users = documents[E].users
                            \/ /\ HeadIs(c2s, s, "join-document")
                               /\ E = srvDocumentId[s]
                               /\ documents'[E].users = UsersDelete(documents[E].users, s)
                  /\ \A r \in Sockets \ {s} :
                         ~MemberOf(r, D) => s2c'[r] = s2c[r]]_vars

\* two documents have one member each; one of them has committed an
\* operation, the other has not, and its member was sent only its snapshot
C26_Witness ==
    \E s, r \in Sockets :
        /\ DOMAIN documents = {"d1", "d2"}
        /\ RosterIds(documents["d1"]) = {s}
        /\ RosterIds(documents["d2"]) = {r}
        /\ documents["d1"].version = 1
        /\ documents["d2"].version = 0
        /\ documents["d2"].content = <<>>
        /\ Len(s2c[r]) = 1
        /\ s2c[r][1].type = "document-state"

\* C28: every roster removal is announced. Whenever a step takes a user out
\* of a document's roster, every member remaining in that roster is sent a
\* user-left for that user in the same step.
C28_RemovalAnnounced ==
    [][\A E \in DOMAIN documents : \A u \in RosterIds(documents[E]) :
          (E \in DOMAIN documents' /\ u \notin RosterIds(documents'[E])) =>
              \A r \in RosterIds(documents'[E]) :
                  \E i \in (Len(s2c[r]) + 1)..Len(s2c'[r]) :
                      /\ s2c'[r][i].type = "user-left"
                      /\ s2c'[r][i].userId = u]_vars

(***************************************************************************)
(* Convergence when users take turns (specification SpecSeq).              *)
(***************************************************************************)
\* C21: without concurrency the baseline converges. When no local edit is
\* made while an operation is in flight, the content of every joined client
\* is the relay's content of its document whenever nothing is in flight.
C21_SequentialConvergence ==
    \A c \in Clients :
        (Quiescent /\ Joined(c)) => content[c] = documents[documentId[c]].content

(***************************************************************************)
(* The detector and apply together (specification SpecFn).                 *)
(***************************************************************************)
\* editedText is base with a non-empty text inserted at one place, and the
\* caret is at the end of the inserted text
SingleInsertion ==
    \E p \in 0..Len(base) : \E k \in 1..Len(editedText) :
        /\ Len(editedText) = Len(base) + k
        /\ caretAt = p + k
        /\ editedText = SubSeq(base, 1, p) \o SubSeq(editedText, p + 1, p + k)
                            \o SubSeq(base, p + 1, Len(base))

\* editedText is base with a non-empty range removed, and the caret is where
\* the range was
SingleDeletion ==
    \E p \in 0..Len(base) : \E k \in 1..(Len(base) - p) :
        /\ caretAt = p
        /\ editedText = SubSeq(base, 1, p) \o SubSeq(base, p + k + 1, Len(base))

\* C31: detector round trip. For every old text and every single contiguous
\* edit of it (an insertion with the caret at its end, a deletion with the
\* caret at its place), detectChange returns an operation, and
\* OTEngine.apply of that operation to the old text gives the new text.
C31_DetectorRoundTrip ==
    (phase = "detected" /\ (SingleInsertion \/ SingleDeletion)) =>
        /\ out.op # Null
        /\ apply(base, out.op) = editedText

\* the detector was called on the removal of the unit behind the first one of
\* a two-unit text
C31_Witness ==
    /\ phase = "detected"
    /\ SingleDeletion
    /\ Len(base) = 2
    /\ base[1] # base[2]
    /\ caretAt = 1
    /\ out.op.type = "delete"
    /\ apply(base, out.op) = <<base[1]>>

====
